---------------------------- MODULE Spec2Model ----------------------------
(***************************************************************************)
(* Model of the fsp-vesting program (native/src): the Pack codec of the    *)
(* two account records (state.rs), the instruction field decoders          *)
(* (instruction.rs), the vesting formula and the instruction processor.    *)
(*                                                                         *)
(* Byte buffers are sequences over 0..255, indexed from 1 (a Rust offset   *)
(* o is position o + 1).  Integers are kept to the range TLC's integers   *)
(* represent (|v| < 2^31) but are encoded in their full 8-byte             *)
(* little-endian two's-complement width, as the code encodes them.         *)
(***************************************************************************)
EXTENDS Integers, Sequences, FiniteSets, TLC

VARIABLES
    buf,            \* codec: the account data buffer (dst of pack, src of unpack)
    kind,           \* codec: which record type the buffer belongs to
    rec,            \* codec: the record last packed into buf, or NoRec
    before,         \* codec: buf as it was before the last pack
    call,           \* codec: the call made last: "none", "pack" or "unpack"
    out,            \* codec: what the last call returned, or NoOut
    vec,            \* wire: the Vec<u8> pack_pubkey_option appends to
    vecWas,         \* wire: vec before the last pack_pubkey_option
    packed,         \* wire: the COption last packed, or NoRec
    input,          \* wire: the byte slice handed to a decoder
    target,         \* wire: the decoder the slice is meant for
    iout,           \* wire: what the decoder returned, or NoOut
    mIn,            \* math: the schedule and amount claimable is asked about
    mNow,           \* math: the timestamp of the last evaluation
    mPrev,          \* math: the result of the evaluation before the last
    mOut,           \* math: the result of the last evaluation, or NoOut
    schedule_data,  \* program: data of the vesting schedule account
    account_data,   \* program: data of the vesting (position) account
    clock,          \* program: the current unix timestamp
    last,           \* program: the instruction processed last and its signer
    result          \* program: what processing it returned, or NoOut

codecVars == <<buf, kind, rec, before, call, out>>
wireVars == <<vec, vecWas, packed, input, target, iout>>
mathVars == <<mIn, mNow, mPrev, mOut>>
progVars == <<schedule_data, account_data, clock, last, result>>
vars == <<buf, kind, rec, before, call, out, vec, vecWas, packed, input, target, iout,
          mIn, mNow, mPrev, mOut, schedule_data, account_data, clock, last, result>>

---------------------------------------------------------------------------
(* Results of a call: a value, an error value, or a panic (abort).         *)
Ok(v)  == [kind |-> "Ok", val |-> v]
Err(e) == [kind |-> "Err", err |-> e]
Panic  == [kind |-> "Panic"]
NoOut  == [kind |-> "None"]
NoRec  == [type |-> "None"]

InvalidAccountData == "InvalidAccountData"
InvalidInstruction == "InvalidInstruction"
ArithmeticError == "ArithmeticError"
PreconditionError == "PreconditionError"

---------------------------------------------------------------------------
(* Primitive encodings.                                                    *)
PUBKEY_BYTES == 32
BYTES_64 == 8
VestingSchedule_LEN == 118
Account_LEN == 113

\* src[off .. off+len) in Rust terms
Slice(s, off, len) == SubSeq(s, off + 1, off + len)
\* src[n ..]
Rest(s, n) == SubSeq(s, n + 1, Len(s))
\* dst with dst[off .. off+Len(bytes)) overwritten
Splice(dst, off, bytes) ==
    [i \in 1..Len(dst) |->
        IF i > off /\ i <= off + Len(bytes) THEN bytes[i - off] ELSE dst[i]]

RECURSIVE LeBytes(_, _)
LeBytes(v, n) == IF n = 0 THEN <<>> ELSE <<v % 256>> \o LeBytes(v \div 256, n - 1)
RECURSIVE LeFold(_, _, _)
LeFold(b, i, acc) == IF i = 0 THEN acc ELSE LeFold(b, i - 1, acc * 256 + b[i])

\* faulty variant: the bytes in big-endian order
i64_to_be_bytes(v) == LET le == LeBytes(v, 8) IN <<le[8], le[7], le[6], le[5], le[4], le[3], le[2], le[1]>>
i64_to_le_bytes(v) == LeBytes(v, 8)
u64_to_le_bytes(v) == LeBytes(v, 8)
i64_from_le_bytes(b) == LeFold(b, 7, IF b[8] >= 128 THEN b[8] - 256 ELSE b[8])
u64_from_le_bytes(b) == LeFold(b, 8, 0)

bool_as_u8(b) == IF b THEN 1 ELSE 0

\* enum Frequency, #[repr(u8)]: the discriminant is the declaration index
FrequencyVariants ==
    <<"Once", "Slot", "Second", "Minute", "Hour", "Day", "Week", "Month",
      "Quarter", "Year">>
Frequency == {FrequencyVariants[i] : i \in 1..Len(FrequencyVariants)}
Frequency_as_u8(f) == (CHOOSE i \in 1..Len(FrequencyVariants) : FrequencyVariants[i] = f) - 1
Frequency_try_from_primitive(b) ==
    IF b < Len(FrequencyVariants) THEN Ok(FrequencyVariants[b + 1])
    ELSE Err("TryFromPrimitiveError")

\* COption<Pubkey>
COption_None == [tag |-> "None"]
COption_Some(k) == [tag |-> "Some", key |-> k]

---------------------------------------------------------------------------
(* state.rs: pack_coption_key / unpack_coption_key                         *)
\* faulty variant: None leaves the tag bytes as they were
pack_coption_key_stale_tag(src, dst) ==
    IF src.tag = "Some" THEN <<1, 0, 0, 0>> \o src.key ELSE dst

\* the new content of the 36 bytes dst
pack_coption_key(src, dst) ==
    IF src.tag = "Some" THEN <<1, 0, 0, 0>> \o src.key
    ELSE <<0, 0, 0, 0>> \o Slice(dst, 4, 32)

\* faulty variant: only the first tag byte is looked at
unpack_coption_key_first_byte(src) ==
    IF src[1] = 0 THEN Ok(COption_None)
    ELSE IF src[1] = 1 THEN Ok(COption_Some(Slice(src, 4, 32)))
    ELSE Err(InvalidAccountData)

unpack_coption_key(src) ==
    LET tag  == Slice(src, 0, 4)
        body == Slice(src, 4, 32)
    IN  IF tag = <<0, 0, 0, 0>> THEN Ok(COption_None)
        ELSE IF tag = <<1, 0, 0, 0>> THEN Ok(COption_Some(body))
        ELSE Err(InvalidAccountData)

(* state.rs: impl Pack for VestingSchedule                                 *)
VestingSchedule(i, a, m, f, s, d, v) ==
    [type |-> "VestingSchedule", is_initialized |-> i, authority |-> a,
     mint |-> m, frequency |-> f, start |-> s, duration |-> d, vault |-> v]

VestingSchedule_unpack_from_slice(src) ==
    IF Len(src) < VestingSchedule_LEN THEN Panic   \* array_ref![src, 0, 118]
    ELSE
    LET is_initialized == Slice(src, 0, 1)
        authority == Slice(src, 1, 32)
        mint      == Slice(src, 33, 32)
        frequency == Frequency_try_from_primitive(src[66])
        start     == Slice(src, 66, 8)
        duration  == Slice(src, 74, 8)
        vault     == unpack_coption_key(Slice(src, 82, 36))
    IN  IF is_initialized \notin {<<0>>, <<1>>} THEN Err(InvalidAccountData)
        ELSE IF frequency.kind # "Ok" THEN Err(InvalidAccountData)
        ELSE IF vault.kind # "Ok" THEN vault
        ELSE Ok(VestingSchedule(is_initialized = <<1>>, authority, mint,
                                frequency.val, i64_from_le_bytes(start),
                                i64_from_le_bytes(duration), vault.val))

\* the new content of dst; the caller must hold Len(dst) >= LEN (else a panic)
VestingSchedule_pack_into_slice(self, dst) ==
    <<bool_as_u8(self.is_initialized)>>
        \o self.authority
        \o self.mint
        \o <<Frequency_as_u8(self.frequency)>>
        \o i64_to_le_bytes(self.start)
        \o i64_to_le_bytes(self.duration)
        \o pack_coption_key(self.vault, Slice(dst, 82, 36))
        \o Rest(dst, VestingSchedule_LEN)

(* state.rs: impl Pack for Account                                         *)
Account(i, vs, o, m, a, c) ==
    [type |-> "Account", is_initialized |-> i, vesting_schedule |-> vs,
     owner |-> o, mint |-> m, amount |-> a, claimed |-> c]

Account_unpack_from_slice(src) ==
    IF Len(src) < Account_LEN THEN Panic   \* array_ref![src, 0, 113]
    ELSE
    LET is_initialized == Slice(src, 0, 1)
    IN  IF is_initialized \notin {<<0>>, <<1>>} THEN Err(InvalidAccountData)
        ELSE Ok(Account(is_initialized = <<1>>, Slice(src, 1, 32),
                        Slice(src, 33, 32), Slice(src, 65, 32),
                        u64_from_le_bytes(Slice(src, 97, 8)),
                        u64_from_le_bytes(Slice(src, 105, 8))))

Account_pack_into_slice(self, dst) ==
    <<bool_as_u8(self.is_initialized)>>
        \o self.vesting_schedule
        \o self.owner
        \o self.mint
        \o u64_to_le_bytes(self.amount)
        \o u64_to_le_bytes(self.claimed)
        \o Rest(dst, Account_LEN)

---------------------------------------------------------------------------
(* The codec as a state machine: the runtime hands the program an account  *)
(* buffer holding arbitrary bytes; the program packs a record into it      *)
(* and unpacks the buffer.                                                 *)
Key(n) == [i \in 1..PUBKEY_BYTES |-> (n * 40 + i) % 256]
Zeros(n) == [i \in 1..n |-> 0]

I64Samples == {-1, 0, 1700000000}
U64Samples == {0, 1, 250000, 2147483647}
\* <<authority, mint, vault>> resp. <<vesting_schedule, owner, mint>>
ScheduleKeys == {<<Key(1), Key(2), COption_None>>, <<Key(2), Key(1), COption_Some(Key(1))>>,
                 <<Key(1), Key(1), COption_Some(Key(3))>>}
AccountKeys == {<<Key(3), Key(1), Key(2)>>, <<Key(1), Key(2), Key(2)>>}

ScheduleRecords ==
    {VestingSchedule(i, k[1], k[2], f, s, d, k[3]) :
        i \in BOOLEAN, k \in ScheduleKeys, f \in Frequency,
        s \in I64Samples, d \in {-2147483647, 86400}}
AccountRecords ==
    {Account(i, k[1], k[2], k[3], a, c) :
        i \in BOOLEAN, k \in AccountKeys, a \in U64Samples, c \in U64Samples}

ScheduleImage ==
    VestingSchedule_pack_into_slice(
        VestingSchedule(TRUE, Key(4), Key(5), "Day", 1700000000, 86400,
                        COption_Some(Key(6))),
        Zeros(VestingSchedule_LEN))
AccountImage ==
    Account_pack_into_slice(
        Account(TRUE, Key(4), Key(5), Key(6), 1000000, 250000), Zeros(Account_LEN))

\* offsets and values of single corrupted bytes; integer fields are left
\* alone so that every decoded integer stays representable
ScheduleCorruptOffsets == {0, 65, 82, 83, 85, 86}
AccountCorruptOffsets == {0, 1, 96}
CorruptValues == {0, 1, 2, 9, 10, 255}
ShortBy == {1, 2, 50}

InitBufs(k) ==
    LET image == IF k = "VestingSchedule" THEN ScheduleImage ELSE AccountImage
        offs  == IF k = "VestingSchedule" THEN ScheduleCorruptOffsets
                 ELSE AccountCorruptOffsets
    IN  {Zeros(Len(image)), image, image \o <<171, 205>>, <<>>}
        \cup {Splice(image, o, <<v>>) : o \in offs, v \in CorruptValues}
        \cup {SubSeq(image, 1, Len(image) - n) : n \in ShortBy}

IdleCodec ==
    /\ buf = <<>> /\ before = <<>> /\ kind = "none" /\ rec = NoRec
    /\ call = "none" /\ out = NoOut
IdleWire ==
    /\ vec = <<>> /\ vecWas = <<>> /\ packed = NoRec /\ input = <<>>
    /\ target = "none" /\ iout = NoOut

IdleMath ==
    /\ mIn = NoRec /\ mNow = 0 /\ mPrev = NoOut /\ mOut = NoOut

IdleProg ==
    /\ schedule_data = <<>> /\ account_data = <<>> /\ clock = 0
    /\ last = NoRec /\ result = NoOut

InitCodec ==
    /\ IdleWire /\ IdleMath /\ IdleProg
    /\ kind \in {"VestingSchedule", "Account"}
    /\ buf \in InitBufs(kind)
    /\ before = buf
    /\ rec = NoRec
    /\ call = "none"
    /\ out = NoOut

\* array_mut_ref![dst, 0, LEN] panics on a dst shorter than LEN
PackSchedule(r) ==
    /\ kind = "VestingSchedule" /\ call = "none"
    /\ call' = "pack"
    /\ before' = buf
    /\ IF Len(buf) < VestingSchedule_LEN
       THEN out' = Panic /\ UNCHANGED <<buf, rec>>
       ELSE /\ buf' = VestingSchedule_pack_into_slice(r, buf)
            /\ rec' = r
            /\ out' = NoOut
    /\ UNCHANGED <<kind, wireVars, mathVars, progVars>>

PackAccount(r) ==
    /\ kind = "Account" /\ call = "none"
    /\ call' = "pack"
    /\ before' = buf
    /\ IF Len(buf) < Account_LEN
       THEN out' = Panic /\ UNCHANGED <<buf, rec>>
       ELSE /\ buf' = Account_pack_into_slice(r, buf)
            /\ rec' = r
            /\ out' = NoOut
    /\ UNCHANGED <<kind, wireVars, mathVars, progVars>>

UnpackSchedule ==
    /\ kind = "VestingSchedule" /\ call # "unpack" /\ out # Panic
    /\ call' = "unpack"
    /\ out' = VestingSchedule_unpack_from_slice(buf)
    /\ UNCHANGED <<buf, kind, rec, before, wireVars, mathVars, progVars>>

UnpackAccount ==
    /\ kind = "Account" /\ call # "unpack" /\ out # Panic
    /\ call' = "unpack"
    /\ out' = Account_unpack_from_slice(buf)
    /\ UNCHANGED <<buf, kind, rec, before, wireVars, mathVars, progVars>>

NextCodec ==
    \/ \E r \in ScheduleRecords : PackSchedule(r)
    \/ \E r \in AccountRecords : PackAccount(r)
    \/ UnpackSchedule
    \/ UnpackAccount

SpecCodec == InitCodec /\ [][NextCodec]_vars

---------------------------------------------------------------------------
(* Claims about the record codec, checked under SpecCodec.                 *)
LenOf(k) == IF k = "VestingSchedule" THEN VestingSchedule_LEN ELSE Account_LEN

\* C1: a record packed into a buffer of any prior content and then unpacked
\* from it comes back Ok and equal, field by field, to the record packed.
C1_RoundTrip == (call = "unpack" /\ rec # NoRec) => out = Ok(rec)

C1_Witness ==
    /\ call = "unpack" /\ rec # NoRec /\ kind = "VestingSchedule"
    /\ rec.vault = COption_None /\ rec.start < 0
    /\ Slice(before, 82, 4) = <<1, 0, 0, 0>>
    /\ out = Ok(rec)

\* C5: unpacking a full-length buffer returns Err(InvalidAccountData) when
\* the initialized byte is not 0 or 1, or (VestingSchedule) the frequency
\* byte is not in 0..9 or the vault tag is neither 00000000 nor 01000000;
\* every other full-length buffer unpacks Ok.
MalformedFieldBytes(b, k) ==
    \/ b[1] \notin {0, 1}
    \/ /\ k = "VestingSchedule"
       /\ \/ b[66] \notin 0..9
          \/ <<b[83], b[84], b[85], b[86]>> \notin {<<0, 0, 0, 0>>, <<1, 0, 0, 0>>}

C5_DecodeRejectsMalformed ==
    (call = "unpack" /\ Len(buf) >= LenOf(kind)) =>
        IF MalformedFieldBytes(buf, kind)
        THEN out = Err(InvalidAccountData)
        ELSE out.kind = "Ok"

C5_Witness ==
    /\ call = "unpack" /\ kind = "VestingSchedule" /\ rec = NoRec
    /\ Len(buf) = VestingSchedule_LEN
    /\ buf[1] = 1 /\ buf[66] \in 0..9
    /\ <<buf[83], buf[84], buf[85], buf[86]>> = <<1, 0, 0, 255>>
    /\ out = Err(InvalidAccountData)

\* C6 (as claimed): unpacking a buffer shorter than the record's length
\* returns an error value; it does not abort.
C6_ShortBufferIsErrorValue ==
    (call = "unpack" /\ Len(buf) < LenOf(kind)) => out.kind = "Err"

\* C8: the bytes pack leaves in the buffer, field by field at the offsets
\* of the layout table; integers little-endian; bytes pack does not own
\* (beyond the record, and the vault payload of an absent vault) untouched,
\* and an absent vault's payload ignored by unpack.
LeByte(v, i) == IF i < 4 THEN (v \div (256 ^ i)) % 256 ELSE IF v < 0 THEN 255 ELSE 0
IsLe64At(b, off, v) == \A i \in 0..7 : b[off + 1 + i] = LeByte(v, i)
IsBytesAt(b, off, bytes) == \A i \in 1..Len(bytes) : b[off + i] = bytes[i]

ScheduleLayout(b, r, old) ==
    /\ b[1] = (IF r.is_initialized THEN 1 ELSE 0)
    /\ IsBytesAt(b, 1, r.authority)
    /\ IsBytesAt(b, 33, r.mint)
    /\ FrequencyVariants[b[66] + 1] = r.frequency
    /\ IsLe64At(b, 66, r.start)
    /\ IsLe64At(b, 74, r.duration)
    /\ IF r.vault.tag = "Some"
       THEN IsBytesAt(b, 82, <<1, 0, 0, 0>>) /\ IsBytesAt(b, 86, r.vault.key)
       ELSE IsBytesAt(b, 82, <<0, 0, 0, 0>>) /\ IsBytesAt(b, 86, Slice(old, 86, 32))

AccountLayout(b, r) ==
    /\ b[1] = (IF r.is_initialized THEN 1 ELSE 0)
    /\ IsBytesAt(b, 1, r.vesting_schedule)
    /\ IsBytesAt(b, 33, r.owner)
    /\ IsBytesAt(b, 65, r.mint)
    /\ IsLe64At(b, 97, r.amount)
    /\ IsLe64At(b, 105, r.claimed)

C8_ByteLayout ==
    rec # NoRec =>
        /\ Len(buf) = Len(before)
        /\ \A i \in (LenOf(kind) + 1)..Len(buf) : buf[i] = before[i]
        /\ IF kind = "VestingSchedule" THEN ScheduleLayout(buf, rec, before)
           ELSE AccountLayout(buf, rec)
        /\ (call = "unpack" /\ kind = "VestingSchedule" /\ rec.vault.tag = "None")
               => out.val.vault = COption_None

C8_Witness ==
    /\ call = "pack" /\ rec # NoRec /\ kind = "VestingSchedule"
    /\ rec.vault.tag = "None" /\ Len(buf) > VestingSchedule_LEN
    /\ buf[87] # 0 /\ rec.duration < 0 /\ rec.start > 65536

---------------------------------------------------------------------------
(* instruction.rs: the field decoders and pack_pubkey_option.  A decoder   *)
(* returns the value and the rest of the slice.                            *)
Taken(v, rest) == [val |-> v, rest |-> rest]

unpack_pubkey(in) ==
    IF Len(in) < PUBKEY_BYTES THEN Err(InvalidInstruction)
    ELSE Ok(Taken(Slice(in, 0, PUBKEY_BYTES), Rest(in, PUBKEY_BYTES)))

unpack_pubkey_option(in) ==
    IF in # <<>> /\ in[1] = 0 THEN Ok(Taken(COption_None, Rest(in, 1)))
    ELSE IF in # <<>> /\ in[1] = 1
    THEN LET pk == unpack_pubkey(Rest(in, 1))
         IN  IF pk.kind # "Ok" THEN pk
             ELSE Ok(Taken(COption_Some(pk.val.val), pk.val.rest))
    ELSE Err(InvalidInstruction)

\* faulty variant: None pushes nothing
pack_pubkey_option_no_tag(value, v) ==
    IF value.tag = "Some" THEN (v \o <<1>>) \o value.key ELSE v

pack_pubkey_option(value, v) ==
    IF value.tag = "Some" THEN (v \o <<1>>) \o value.key ELSE v \o <<0>>

\* faulty variant: a short slice is read as far as it goes, missing bytes as zero
unpack_u64_zero_extended(in) ==
    IF Len(in) < BYTES_64
    THEN Ok(Taken(u64_from_le_bytes(in \o Zeros(BYTES_64 - Len(in))), <<>>))
    ELSE Ok(Taken(u64_from_le_bytes(Slice(in, 0, BYTES_64)), Rest(in, BYTES_64)))

unpack_u64(in) ==
    IF Len(in) < BYTES_64 THEN Err(InvalidInstruction)
    ELSE Ok(Taken(u64_from_le_bytes(Slice(in, 0, BYTES_64)), Rest(in, BYTES_64)))

unpack_i64(in) ==
    IF Len(in) < BYTES_64 THEN Err(InvalidInstruction)
    ELSE Ok(Taken(i64_from_le_bytes(Slice(in, 0, BYTES_64)), Rest(in, BYTES_64)))

(* VestingInstruction::unpack.  The source splits off the tag byte and     *)
(* fails on an empty slice; its match arms 0..6 are empty and there is no  *)
(* arm for other tags.  The arms below follow the wire table of the        *)
(* specification (section 6), built from the field decoders above.         *)
Option_None == [tag |-> "None"]
Option_Some(v) == [tag |-> "Some", val |-> v]

unpack_frequency(in) ==
    IF in = <<>> THEN Err(InvalidInstruction)
    ELSE LET f == Frequency_try_from_primitive(in[1])
         IN  IF f.kind # "Ok" THEN Err(InvalidInstruction)
             ELSE Ok(Taken(f.val, Rest(in, 1)))

\* a presence flag byte, then the field when present
Presence(in, field) ==
    IF in # <<>> /\ in[1] = 0 THEN Ok(Taken(Option_None, Rest(in, 1)))
    ELSE IF in # <<>> /\ in[1] = 1
    THEN IF field.kind # "Ok" THEN field
         ELSE Ok(Taken(Option_Some(field.val.val), field.val.rest))
    ELSE Err(InvalidInstruction)
unpack_i64_option(in) == Presence(in, unpack_i64(Rest(in, 1)))
unpack_frequency_option(in) == Presence(in, unpack_frequency(Rest(in, 1)))

unpack_InitVestingSchedule(rest) ==
    LET authority == unpack_pubkey(rest)
        mint      == unpack_pubkey(authority.val.rest)
        schedule  == unpack_frequency(mint.val.rest)
        start     == unpack_i64(schedule.val.rest)
        duration  == unpack_i64(start.val.rest)
        vault     == unpack_pubkey_option(duration.val.rest)
    IN  IF authority.kind # "Ok" THEN authority
        ELSE IF mint.kind # "Ok" THEN mint
        ELSE IF schedule.kind # "Ok" THEN schedule
        ELSE IF start.kind # "Ok" THEN start
        ELSE IF duration.kind # "Ok" THEN duration
        ELSE IF vault.kind # "Ok" THEN vault
        ELSE Ok([tag |-> "InitVestingSchedule", authority |-> authority.val.val,
                 mint |-> mint.val.val, schedule |-> schedule.val.val,
                 start |-> start.val.val, duration |-> duration.val.val,
                 vault |-> vault.val.val])

unpack_CreateAccount(rest) ==
    LET owner  == unpack_pubkey(rest)
        amount == unpack_u64(owner.val.rest)
    IN  IF owner.kind # "Ok" THEN owner
        ELSE IF amount.kind # "Ok" THEN amount
        ELSE Ok([tag |-> "CreateAccount", owner |-> owner.val.val,
                 amount |-> amount.val.val])

unpack_AmendAmount(rest) ==
    LET amount == unpack_u64(rest)
    IN  IF amount.kind # "Ok" THEN amount
        ELSE Ok([tag |-> "AmendAmount", amount |-> amount.val.val])

unpack_AmendSchedule(rest) ==
    LET start    == unpack_i64_option(rest)
        schedule == unpack_frequency_option(start.val.rest)
        duration == unpack_i64_option(schedule.val.rest)
    IN  IF start.kind # "Ok" THEN start
        ELSE IF schedule.kind # "Ok" THEN schedule
        ELSE IF duration.kind # "Ok" THEN duration
        ELSE Ok([tag |-> "AmendSchedule", start |-> start.val.val,
                 schedule |-> schedule.val.val, duration |-> duration.val.val])

VestingInstruction_unpack(in) ==
    IF in = <<>> THEN Err(InvalidInstruction)   \* split_first().ok_or(..)?
    ELSE LET tag == in[1]
             rest == Rest(in, 1)
         IN  CASE tag = 0 -> unpack_InitVestingSchedule(rest)
               [] tag = 1 -> unpack_CreateAccount(rest)
               [] tag = 2 -> unpack_AmendAmount(rest)
               [] tag = 3 -> unpack_AmendSchedule(rest)
               [] tag = 4 -> Ok([tag |-> "Claim"])
               [] tag = 5 -> Ok([tag |-> "CloseAccount"])
               [] tag = 6 -> Ok([tag |-> "CloseVestingSchedule"])
               [] OTHER -> Err(InvalidInstruction)

---------------------------------------------------------------------------
(* The wire as a state machine: a client packs an optional key and sends   *)
(* it, or the program is handed an arbitrary slice; a decoder is applied.  *)
Prefixes(s) == {SubSeq(s, 1, n) : n \in 0..Len(s)}

InitImage(freq, vaultBytes) ==
    <<0>> \o Key(1) \o Key(2) \o <<freq>> \o i64_to_le_bytes(1700000000)
        \o i64_to_le_bytes(86400) \o vaultBytes
InstructionImages ==
    { InitImage(5, <<1>> \o Key(3)), InitImage(9, <<0>>), InitImage(10, <<0>>),
      InitImage(0, <<2>> \o Key(3)), InitImage(2, <<0, 0, 0, 0>> \o Key(3)),
      <<1>> \o Key(1) \o u64_to_le_bytes(250000),
      <<2>> \o u64_to_le_bytes(5) \o <<9>>,
      <<3, 1>> \o i64_to_le_bytes(-1) \o <<1, 4, 0>>,
      <<3, 0, 0, 1>> \o i64_to_le_bytes(86400),
      <<3, 0, 1, 10, 0>>, <<3, 2>>,
      <<4>>, <<5, 9>>, <<6>>, <<7>>, <<7>> \o Key(1), <<255>> }
Trailers == {<<>>, <<9>>, <<0, 0, 0>> \o Key(4)}

WireInputs(t) ==
    CASE t = "instruction" -> UNION {Prefixes(i) : i \in InstructionImages}
      [] t = "pubkey" -> Prefixes(Key(1) \o <<9>>)
      [] t = "pubkey_option" ->
            Prefixes(<<1>> \o Key(1) \o <<9>>) \cup {<<0>>, <<0, 9>>, <<2>> \o Key(1)}
      [] t = "u64" -> UNION {Prefixes(u64_to_le_bytes(v) \o <<9>>) : v \in U64Samples}
      [] t = "i64" -> UNION {Prefixes(i64_to_le_bytes(v) \o <<9>>) : v \in I64Samples}
      [] t = "none" -> {<<>>}

InitWire ==
    /\ IdleCodec /\ IdleMath /\ IdleProg
    /\ vec \in {<<>>, <<0>>}
    /\ vecWas = vec
    /\ packed = NoRec
    /\ target \in {"instruction", "pubkey", "pubkey_option", "u64", "i64", "none"}
    /\ input \in WireInputs(target)
    /\ iout = NoOut

PackPubkeyOption(value) ==
    /\ target = "none" /\ packed = NoRec
    /\ vecWas' = vec
    /\ vec' = pack_pubkey_option(value, vec)
    /\ packed' = value
    /\ UNCHANGED <<input, target, iout, codecVars, mathVars, progVars>>

\* the bytes the packer appended arrive, followed by the rest of the message
Send(trailer) ==
    /\ target = "none" /\ packed # NoRec
    /\ input' = Rest(vec, Len(vecWas)) \o trailer
    /\ target' = "pubkey_option"
    /\ UNCHANGED <<vec, vecWas, packed, iout, codecVars, mathVars, progVars>>

Decode(t, r) ==
    /\ target = t /\ iout = NoOut
    /\ iout' = r
    /\ UNCHANGED <<vec, vecWas, packed, input, target, codecVars, mathVars, progVars>>

Unpack == Decode("instruction", VestingInstruction_unpack(input))
UnpackPubkey == Decode("pubkey", unpack_pubkey(input))
UnpackPubkeyOption == Decode("pubkey_option", unpack_pubkey_option(input))
UnpackU64 == Decode("u64", unpack_u64(input))
UnpackI64 == Decode("i64", unpack_i64(input))

NextWire ==
    \/ \E v \in {COption_None, COption_Some(Key(1)), COption_Some(Key(2))} :
            PackPubkeyOption(v)
    \/ \E t \in Trailers : Send(t)
    \/ Unpack
    \/ UnpackPubkey
    \/ UnpackPubkeyOption
    \/ UnpackU64
    \/ UnpackI64

SpecWire == InitWire /\ [][NextWire]_vars

---------------------------------------------------------------------------
(* Claims about the instruction wire, checked under SpecWire.              *)

\* the field bytes a decoded instruction stands for
OptBytes(o, n) == IF o.tag = "Some" THEN 1 + n ELSE 1
FieldBytes(ix) ==
    CASE ix.tag = "InitVestingSchedule" ->
            PUBKEY_BYTES + PUBKEY_BYTES + 1 + BYTES_64 + BYTES_64
                + OptBytes(ix.vault, PUBKEY_BYTES)
      [] ix.tag = "CreateAccount" -> PUBKEY_BYTES + BYTES_64
      [] ix.tag = "AmendAmount" -> BYTES_64
      [] ix.tag = "AmendSchedule" ->
            OptBytes(ix.start, BYTES_64) + OptBytes(ix.schedule, 1)
                + OptBytes(ix.duration, BYTES_64)
      [] OTHER -> 0

\* a fixed-width field decoder: fails on fewer than n bytes, else takes
\* exactly the first n and hands back the rest untouched
FixedFieldOk(n) ==
    IF Len(input) < n THEN iout = Err(InvalidInstruction)
    ELSE /\ iout.kind = "Ok"
         /\ iout.val.rest = SubSeq(input, n + 1, Len(input))

C9_OptionTakes36Bytes ==
    packed # NoRec =>
        /\ Len(vec) - Len(vecWas) = 36
        /\ (target = "pubkey_option" /\ iout # NoOut /\ iout.kind = "Ok")
              => Len(input) - Len(iout.val.rest) = 36

\* C9 (amended): pack_pubkey_option appends the single byte 0 for None and
\* the byte 1 followed by the 32 key bytes for Some; unpack_pubkey_option
\* applied to those bytes followed by anything returns the value packed
\* and exactly what followed.
C9_OptionWire ==
    packed # NoRec =>
        /\ vec = vecWas \o (IF packed.tag = "Some" THEN <<1>> \o packed.key ELSE <<0>>)
        /\ Len(vec) - Len(vecWas) = (IF packed.tag = "Some" THEN 33 ELSE 1)
        /\ (target = "pubkey_option" /\ iout # NoOut) =>
              /\ iout.kind = "Ok"
              /\ iout.val.val = packed
              /\ Len(input) - Len(iout.val.rest) = Len(vec) - Len(vecWas)
              /\ input = Rest(vec, Len(vecWas)) \o iout.val.rest

C9_Witness ==
    /\ packed = COption_None /\ vecWas # <<>> /\ target = "pubkey_option"
    /\ iout.kind = "Ok" /\ Len(iout.val.rest) = 35 /\ iout.val.val = COption_None

---------------------------------------------------------------------------
(* Vesting math.  The source holds the formula only as a comment           *)
(* (state.rs, above enum Frequency): emissions per period, elapsed         *)
(* periods, emitted and claimable tokens.  The function around it (period  *)
(* of a frequency, rounding of the period count, the cap and the exact     *)
(* final emission, the floor at zero) follows section 4.2 of the           *)
(* specification.                                                          *)

\* faulty variant: the division rounded up
emissions_per_period_rounded_up(amount, periods) == -((-amount) \div periods)
\* amount / (duration / frequency) = emissions_per_period
emissions_per_period(amount, periods) == amount \div periods
\* faulty variant: the subtraction the wrong way round
number_of_elapsed_periods_reversed(now, start, period) == (start - now) \div period
\* current_timestamp - starting_timestamp / frequency = number_of_elapsed_periods
number_of_elapsed_periods(now, start, period) == (now - start) \div period
\* emissions_per_period * number_of_elapsed_periods = emitted_tokens
emitted_tokens(per_period, elapsed) == per_period * elapsed
\* faulty variant: what was claimed before is not taken off
claimable_amount_not_reduced(emitted, claimed) == emitted
\* claimable_amount = emitted_tokens - claimed_tokens
claimable_amount(emitted, claimed) == emitted - claimed

\* seconds of one period; 0 where none is defined (Slot is not a time unit,
\* and no length is given for Month, Quarter and Year)
period_seconds(frequency, duration) ==
    CASE frequency = "Once" -> duration
      [] frequency = "Second" -> 1
      [] frequency = "Minute" -> 60
      [] frequency = "Hour" -> 3600
      [] frequency = "Day" -> 86400
      [] frequency = "Week" -> 604800
      [] OTHER -> 0

CeilDiv(a, b) == -((-a) \div b)
Max(a, b) == IF a >= b THEN a ELSE b
Min(a, b) == IF a <= b THEN a ELSE b
total_periods(duration, period) == Max(1, CeilDiv(duration, period))

claimable(now, start, duration, frequency, amount, claimed) ==
    IF now < start THEN Ok(0)
    ELSE LET period == period_seconds(frequency, duration)
         IN  IF period <= 0 THEN Err(ArithmeticError)
             ELSE LET total   == total_periods(duration, period)
                      elapsed == Min(total, number_of_elapsed_periods(now, start, period))
                      emitted == IF elapsed = total THEN amount
                                 ELSE emitted_tokens(emissions_per_period(amount, total),
                                                     elapsed)
                  IN  IF emitted > claimed THEN Ok(claimable_amount(emitted, claimed))
                      ELSE Ok(0)

(* The function under evaluation at non-decreasing timestamps.             *)
MathStarts == {0, 1000}
MathDurations == {-5, 0, 1, 3, 60, 90, 120, 180, 3600, 5400}
MathFrequencies == {"Once", "Slot", "Second", "Minute", "Hour"}
MathAmounts == {0, 1, 7, 100, 1000}
MathOffsets == {-1, 0, 1, 2, 3, 59, 60, 61, 119, 120, 121, 179, 180, 181, 3599, 3600, 7199}
MaxOffset == 7200

TimePoints(in) ==
    {in.start + d : d \in MathOffsets \cup {in.duration}} \cup {in.start + MaxOffset}

InitMath ==
    /\ IdleCodec /\ IdleWire /\ IdleProg
    /\ mIn \in [start : MathStarts, duration : MathDurations,
                 frequency : MathFrequencies, amount : MathAmounts]
    /\ mNow = mIn.start - 6
    /\ mPrev = NoOut
    /\ mOut = NoOut

Evaluate(t) ==
    /\ mIn # NoRec
    /\ t >= mNow
    /\ mNow' = t
    /\ mPrev' = mOut
    /\ mOut' = claimable(t, mIn.start, mIn.duration, mIn.frequency, mIn.amount, 0)
    /\ UNCHANGED <<mIn, codecVars, wireVars, progVars>>

NextMath == \E t \in TimePoints(mIn) : Evaluate(t)

SpecMath == InitMath /\ [][NextMath]_vars

---------------------------------------------------------------------------
(* Claims about the vesting math, checked under SpecMath.                  *)
MathPeriod == period_seconds(mIn.frequency, mIn.duration)

---------------------------------------------------------------------------
(* The instruction processor.  Processor::process is unimplemented!() in   *)
(* the source; the transitions below follow the table of section 4.3 of    *)
(* the specification.  Records are read and written through the codec of   *)
(* state.rs, and Claim uses claimable above.  A transition yields the      *)
(* result and the two account images to commit; on an error both images    *)
(* are the ones it was given.                                              *)
Outcome(res, sched, acct) == [res |-> res, sched |-> sched, acct |-> acct]
ScheduleAddress == Key(7)

process_InitVestingSchedule(ix, sched, acct) ==
    LET s == VestingSchedule_unpack_from_slice(sched)
    IN  IF s.kind # "Ok" THEN Outcome(s, sched, acct)
        ELSE IF s.val.is_initialized THEN Outcome(Err(PreconditionError), sched, acct)
        ELSE Outcome(Ok("done"),
                     VestingSchedule_pack_into_slice(
                         VestingSchedule(TRUE, ix.authority, ix.mint, ix.schedule,
                                         ix.start, ix.duration, ix.vault), sched),
                     acct)

process_CreateAccount(ix, caller, sched, acct) ==
    LET s == VestingSchedule_unpack_from_slice(sched)
        a == Account_unpack_from_slice(acct)
    IN  IF s.kind # "Ok" THEN Outcome(s, sched, acct)
        ELSE IF a.kind # "Ok" THEN Outcome(a, sched, acct)
        ELSE IF ~s.val.is_initialized \/ a.val.is_initialized
                \/ caller # s.val.authority
        THEN Outcome(Err(PreconditionError), sched, acct)
        ELSE Outcome(Ok("done"), sched,
                     Account_pack_into_slice(
                         Account(TRUE, ScheduleAddress, ix.owner, s.val.mint,
                                 ix.amount, 0), acct))

\* faulty variant: an amount below claimed is raised to claimed
process_AmendAmount_clamped(ix, caller, sched, acct) ==
    LET s == VestingSchedule_unpack_from_slice(sched)
        a == Account_unpack_from_slice(acct)
    IN  IF s.kind # "Ok" THEN Outcome(s, sched, acct)
        ELSE IF a.kind # "Ok" THEN Outcome(a, sched, acct)
        ELSE IF ~s.val.is_initialized \/ ~a.val.is_initialized
                \/ caller # s.val.authority \/ a.val.mint # s.val.mint
        THEN Outcome(Err(PreconditionError), sched, acct)
        ELSE Outcome(Ok("done"), sched,
                     Account_pack_into_slice(
                         [a.val EXCEPT !.amount = Max(ix.amount, a.val.claimed)], acct))

process_AmendAmount(ix, caller, sched, acct) ==
    LET s == VestingSchedule_unpack_from_slice(sched)
        a == Account_unpack_from_slice(acct)
    IN  IF s.kind # "Ok" THEN Outcome(s, sched, acct)
        ELSE IF a.kind # "Ok" THEN Outcome(a, sched, acct)
        ELSE IF ~s.val.is_initialized \/ ~a.val.is_initialized
                \/ caller # s.val.authority \/ a.val.mint # s.val.mint
                \/ ix.amount < a.val.claimed
        THEN Outcome(Err(PreconditionError), sched, acct)
        ELSE Outcome(Ok("done"), sched,
                     Account_pack_into_slice([a.val EXCEPT !.amount = ix.amount], acct))

OrElse(opt, old) == IF opt.tag = "Some" THEN opt.val ELSE old

process_AmendSchedule(ix, caller, sched, acct) ==
    LET s == VestingSchedule_unpack_from_slice(sched)
    IN  IF s.kind # "Ok" THEN Outcome(s, sched, acct)
        ELSE IF ~s.val.is_initialized \/ caller # s.val.authority
        THEN Outcome(Err(PreconditionError), sched, acct)
        ELSE Outcome(Ok("done"),
                     VestingSchedule_pack_into_slice(
                         [s.val EXCEPT !.start = OrElse(ix.start, @),
                                       !.frequency = OrElse(ix.schedule, @),
                                       !.duration = OrElse(ix.duration, @)], sched),
                     acct)

\* a Claim of nothing is reported as a precondition error
process_Claim(caller, now, sched, acct) ==
    LET s == VestingSchedule_unpack_from_slice(sched)
        a == Account_unpack_from_slice(acct)
        c == claimable(now, s.val.start, s.val.duration, s.val.frequency,
                       a.val.amount, a.val.claimed)
    IN  IF s.kind # "Ok" THEN Outcome(s, sched, acct)
        ELSE IF a.kind # "Ok" THEN Outcome(a, sched, acct)
        ELSE IF ~s.val.is_initialized \/ ~a.val.is_initialized
                \/ caller # a.val.owner \/ a.val.mint # s.val.mint
        THEN Outcome(Err(PreconditionError), sched, acct)
        ELSE IF c.kind # "Ok" THEN Outcome(c, sched, acct)
        ELSE IF c.val = 0 THEN Outcome(Err(PreconditionError), sched, acct)
        ELSE Outcome(Ok("done"), sched,
                     Account_pack_into_slice(
                         [a.val EXCEPT !.claimed = a.val.claimed + c.val], acct))

Processor_process(ix, caller, now, sched, acct) ==
    CASE ix.tag = "InitVestingSchedule" -> process_InitVestingSchedule(ix, sched, acct)
      [] ix.tag = "CreateAccount" -> process_CreateAccount(ix, caller, sched, acct)
      [] ix.tag = "AmendAmount" -> process_AmendAmount(ix, caller, sched, acct)
      [] ix.tag = "AmendSchedule" -> process_AmendSchedule(ix, caller, sched, acct)
      [] ix.tag = "Claim" -> process_Claim(caller, now, sched, acct)

(* The program as a state machine: one schedule account and one position   *)
(* account, both allocated zeroed; signed instructions arrive in any       *)
(* order and the clock advances between them.                              *)
MaxClock == 4
MaxAmount == 3
Signers == {Key(1), Key(2)}
ProgStarts == {0, 2}
ProgDurations == {0, 3}
ProgFrequencies == {"Once", "Second"}
Optional(S) == {Option_None} \cup {Option_Some(x) : x \in S}

Instructions ==
    {[tag |-> "InitVestingSchedule", authority |-> Key(1), mint |-> Key(3),
      schedule |-> f, start |-> s, duration |-> d, vault |-> COption_None] :
        f \in ProgFrequencies, s \in ProgStarts, d \in ProgDurations}
    \cup {[tag |-> "CreateAccount", owner |-> Key(2), amount |-> n] : n \in 0..MaxAmount}
    \cup {[tag |-> "AmendAmount", amount |-> n] : n \in 0..MaxAmount}
    \cup {[tag |-> "AmendSchedule", start |-> s, schedule |-> f, duration |-> d] :
            s \in Optional(ProgStarts), f \in Optional(ProgFrequencies),
            d \in Optional(ProgDurations)}
    \cup {[tag |-> "Claim"]}

\* what is kept of an instruction once processed
Summary(ix, caller) ==
    [tag |-> ix.tag, caller |-> caller,
     amount |-> IF ix.tag = "AmendAmount" THEN ix.amount ELSE 0]

Init ==
    /\ IdleCodec /\ IdleWire /\ IdleMath
    /\ schedule_data = Zeros(VestingSchedule_LEN)
    /\ account_data = Zeros(Account_LEN)
    /\ clock = 0
    /\ last = NoRec
    /\ result = NoOut

Process(ix, caller) ==
    \E o \in {Processor_process(ix, caller, clock, schedule_data, account_data)} :
        /\ result' = o.res
        /\ schedule_data' = o.sched
        /\ account_data' = o.acct
        /\ last' = Summary(ix, caller)
        /\ UNCHANGED <<clock, codecVars, wireVars, mathVars>>

InitVestingSchedule ==
    \E ix \in Instructions, c \in Signers : ix.tag = "InitVestingSchedule" /\ Process(ix, c)
CreateAccount ==
    \E ix \in Instructions, c \in Signers : ix.tag = "CreateAccount" /\ Process(ix, c)
AmendAmount ==
    \E ix \in Instructions, c \in Signers : ix.tag = "AmendAmount" /\ Process(ix, c)
AmendSchedule ==
    \E ix \in Instructions, c \in Signers : ix.tag = "AmendSchedule" /\ Process(ix, c)
Claim ==
    \E ix \in Instructions, c \in Signers : ix.tag = "Claim" /\ Process(ix, c)

Tick ==
    /\ clock < MaxClock
    /\ clock' = clock + 1
    /\ UNCHANGED <<schedule_data, account_data, last, result, codecVars, wireVars, mathVars>>

Next ==
    \/ InitVestingSchedule
    \/ CreateAccount
    \/ AmendAmount
    \/ AmendSchedule
    \/ Claim
    \/ Tick

Spec == Init /\ [][Next]_vars

---------------------------------------------------------------------------
(* Claims about the processor, checked under Spec.                         *)
Position == Account_unpack_from_slice(account_data)
Schedule == VestingSchedule_unpack_from_slice(schedule_data)
PositionInitialized == Position.kind = "Ok" /\ Position.val.is_initialized

===========================================================================
